---- MODULE Spec2Model ----
(***************************************************************************)
(* A model of the MIPS simulator's assembler (assembler/assemble.rs) and   *)
(* of the session object that drives it (webapi/state.rs).                 *)
(*                                                                         *)
(* Text is a sequence of one-character strings, so that trimming,          *)
(* tokenising and number parsing are computed as the code computes them.   *)
(* A u32 is the pair <<high 16 bits, low 16 bits>>.                        *)
(***************************************************************************)
EXTENDS Integers, Sequences, FiniteSets, TLC

(***************************************************************************)
(* u32 arithmetic                                                          *)
(***************************************************************************)
Half == 256 * 256

Mk(hi, lo) == <<hi, lo>>

U32FromInt(n) == Mk(n \div Half, n % Half)

U32Lt(a, b) == a[1] < b[1] \/ (a[1] = b[1] /\ a[2] < b[2])

U32Le(a, b) == a = b \/ U32Lt(a, b)

U32Max(a, b) == IF U32Lt(a, b) THEN b ELSE a

\* a + n on u32 (wrapping, as a release build does), for 0 <= n < 2^16
U32AddInt(a, n) ==
    LET lo == a[2] + n
    IN  Mk((a[1] + lo \div Half) % Half, lo % Half)

RangeContains(r, x) == U32Le(r.start, x) /\ U32Le(x, r.end)

(***************************************************************************)
(* str operations of the standard library used by the assembler            *)
(***************************************************************************)
IsWhitespace(c) == c \in {" ", "\t"}

RECURSIVE TrimStart(_)
TrimStart(s) ==
    IF s = <<>> THEN s
    ELSE IF IsWhitespace(Head(s)) THEN TrimStart(Tail(s)) ELSE s

RECURSIVE TrimEnd(_)
TrimEnd(s) ==
    IF s = <<>> THEN s
    ELSE IF IsWhitespace(s[Len(s)]) THEN TrimEnd(SubSeq(s, 1, Len(s) - 1)) ELSE s

Trim(s) == TrimEnd(TrimStart(s))

\* str::find: the index of the first occurrence of c, 0 for None
Find(s, c) ==
    LET idx == {i \in 1..Len(s) : s[i] = c}
    IN  IF idx = {} THEN 0 ELSE CHOOSE i \in idx : \A j \in idx : i <= j

RECURSIVE TakeToken(_)
TakeToken(s) ==
    IF s = <<>> \/ IsWhitespace(Head(s)) THEN <<>>
    ELSE <<Head(s)>> \o TakeToken(Tail(s))

RECURSIVE SplitWhitespace(_)
SplitWhitespace(s) ==
    LET t == TrimStart(s)
    IN  IF t = <<>> THEN <<>>
        ELSE LET tok == TakeToken(t)
             IN  <<tok>> \o SplitWhitespace(SubSeq(t, Len(tok) + 1, Len(t)))

RECURSIVE Split(_, _)
Split(s, c) ==
    LET i == Find(s, c)
    IN  IF i = 0 THEN <<s>>
        ELSE <<SubSeq(s, 1, i - 1)>> \o Split(SubSeq(s, i + 1, Len(s)), c)

StartsWith(s, p) == Len(p) <= Len(s) /\ SubSeq(s, 1, Len(p)) = p

\* str::strip_prefix on a text known to start with p
StripPrefix(s, p) == SubSeq(s, Len(p) + 1, Len(s))

UPPER == <<"A","B","C","D","E","F","G","H","I","J","K","L","M",
           "N","O","P","Q","R","S","T","U","V","W","X","Y","Z">>

LOWER == <<"a","b","c","d","e","f","g","h","i","j","k","l","m",
           "n","o","p","q","r","s","t","u","v","w","x","y","z">>

ToLowerChar(c) ==
    IF \E i \in 1..26 : UPPER[i] = c
    THEN LOWER[CHOOSE i \in 1..26 : UPPER[i] = c]
    ELSE c

ToAsciiLowercase(s) == [i \in 1..Len(s) |-> ToLowerChar(s[i])]

DIGITS == <<"0","1","2","3","4","5","6","7","8","9">> \o LOWER

\* char::to_digit(radix): -1 for None
ToDigit(c, radix) ==
    LET l == ToLowerChar(c)
        idx == {i \in 1..Len(DIGITS) : DIGITS[i] = l /\ i - 1 < radix}
    IN  IF idx = {} THEN -1 ELSE (CHOOSE i \in idx : TRUE) - 1

None == [some |-> FALSE, val |-> Mk(0, 0)]

Some(x) == [some |-> TRUE, val |-> x]

\* the digits of an unsigned from_str_radix: a leading '+' is accepted, '-' is not
UnsignedDigits(s) == IF s # <<>> /\ Head(s) = "+" THEN Tail(s) ELSE s

RECURSIVE AccU32(_, _, _)
AccU32(digs, radix, acc) ==
    IF digs = <<>> THEN Some(acc)
    ELSE LET d == ToDigit(Head(digs), radix)
             lo == acc[2] * radix + d
             hi == acc[1] * radix + lo \div Half
         IN  IF d < 0 \/ hi >= Half THEN None
             ELSE AccU32(Tail(digs), radix, Mk(hi, lo % Half))

\* u32::from_str_radix(..).ok()
U32FromStrRadix(s, radix) ==
    IF UnsignedDigits(s) = <<>> THEN None
    ELSE AccU32(UnsignedDigits(s), radix, Mk(0, 0))

RECURSIVE AccU8(_, _)
AccU8(digs, acc) ==
    IF digs = <<>> THEN acc
    ELSE LET d == ToDigit(Head(digs), 10)
         IN  IF d < 0 \/ acc < 0 \/ acc * 10 + d > 255 THEN -1
             ELSE AccU8(Tail(digs), acc * 10 + d)

\* u8::from_str(..): -1 for Err
U8FromStr(s) ==
    IF UnsignedDigits(s) = <<>> THEN -1 ELSE AccU8(UnsignedDigits(s), 0)

(***************************************************************************)
(* assembler/assemble.rs                                                   *)
(***************************************************************************)
try_parse_number(text0) ==
    LET text == ToAsciiLowercase(text0)
    IN  IF StartsWith(text, <<"0", "x">>) THEN U32FromStrRadix(StripPrefix(text, <<"0", "x">>), 16)
        ELSE IF StartsWith(text, <<"0", "o">>) THEN U32FromStrRadix(StripPrefix(text, <<"0", "o">>), 8)
        ELSE IF StartsWith(text, <<"0", "b">>) THEN U32FromStrRadix(StripPrefix(text, <<"0", "b">>), 2)
        ELSE U32FromStrRadix(text, 10)


NUM_REGS == 32

\* the textual register forms of try_parse_reg's match
REG_NAMES ==
    << [n |-> <<"r","0">>, r |-> 0], [n |-> <<"z","e","r","o">>, r |-> 0],
       [n |-> <<"a","t">>, r |-> 1], [n |-> <<"v","0">>, r |-> 2],
       [n |-> <<"a","0">>, r |-> 4], [n |-> <<"a","1">>, r |-> 5],
       [n |-> <<"a","2">>, r |-> 6], [n |-> <<"a","3">>, r |-> 7],
       [n |-> <<"t","0">>, r |-> 8], [n |-> <<"t","1">>, r |-> 9],
       [n |-> <<"t","2">>, r |-> 10], [n |-> <<"t","3">>, r |-> 11],
       [n |-> <<"t","4">>, r |-> 12], [n |-> <<"t","5">>, r |-> 13],
       [n |-> <<"t","6">>, r |-> 14], [n |-> <<"t","7">>, r |-> 15],
       [n |-> <<"s","0">>, r |-> 16], [n |-> <<"s","1">>, r |-> 17],
       [n |-> <<"s","2">>, r |-> 18], [n |-> <<"s","3">>, r |-> 19],
       [n |-> <<"s","4">>, r |-> 20], [n |-> <<"s","5">>, r |-> 21],
       [n |-> <<"s","6">>, r |-> 22], [n |-> <<"s","7">>, r |-> 23],
       [n |-> <<"t","8">>, r |-> 24], [n |-> <<"t","9">>, r |-> 25],
       [n |-> <<"k","0">>, r |-> 26], [n |-> <<"k","1">>, r |-> 27],
       [n |-> <<"g","p">>, r |-> 28], [n |-> <<"s","p">>, r |-> 29],
       [n |-> <<"s","8">>, r |-> 30], [n |-> <<"r","a">>, r |-> 31] >>

RegOk(r) == [ok |-> TRUE, val |-> r, err |-> ""]

RegErr == [ok |-> FALSE, val |-> 0, err |-> "InvalidRegisterName"]

\* mutant: the bound on a numeric register is off by one
M_try_parse_reg(text) ==
    IF text = <<>> \/ Head(text) # "$" THEN RegErr
    ELSE LET stripped == Tail(text)
             x == U8FromStr(stripped)
             named == {i \in 1..Len(REG_NAMES) : REG_NAMES[i].n = stripped}
         IN  IF x >= 0 /\ x <= NUM_REGS THEN RegOk(x)
             ELSE IF named # {} THEN RegOk(REG_NAMES[CHOOSE i \in named : TRUE].r)
             ELSE RegErr

try_parse_reg(text) ==
    IF text = <<>> \/ Head(text) # "$" THEN RegErr
    ELSE LET stripped == Tail(text)
             x == U8FromStr(stripped)
             named == {i \in 1..Len(REG_NAMES) : REG_NAMES[i].n = stripped}
         IN  IF x >= 0 /\ x < NUM_REGS THEN RegOk(x)
             ELSE IF named # {} THEN RegOk(REG_NAMES[CHOOSE i \in named : TRUE].r)
             ELSE RegErr

FormatRErr(e) == [ok |-> FALSE, rd |-> 0, rs |-> 0, rt |-> 0, shamt |-> 0, err |-> e]

\* mutant: the second operand is taken for rt and the third for rs
M_try_parse_3arg(line, args) ==
    IF Len(args) < 3 THEN FormatRErr("InvalidNumberOfOperands")
    ELSE IF Len(args) > 3 THEN FormatRErr("TrailingToken")
    ELSE IF ~try_parse_reg(Trim(args[1])).ok \/ ~try_parse_reg(Trim(args[2])).ok
            \/ ~try_parse_reg(Trim(args[3])).ok
    THEN FormatRErr("InvalidRegisterName")
    ELSE [ok |-> TRUE, rd |-> try_parse_reg(Trim(args[1])).val,
          rs |-> try_parse_reg(Trim(args[3])).val,
          rt |-> try_parse_reg(Trim(args[2])).val, shamt |-> 0, err |-> ""]

\* args: the operand texts, in order
try_parse_3arg(line, args) ==
    IF Len(args) < 3 THEN FormatRErr("InvalidNumberOfOperands")
    ELSE IF Len(args) > 3 THEN FormatRErr("TrailingToken")
    ELSE LET rd == try_parse_reg(Trim(args[1]))
             rs == try_parse_reg(Trim(args[2]))
             rt == try_parse_reg(Trim(args[3]))
         IN  IF ~rd.ok THEN FormatRErr(rd.err)
             ELSE IF ~rs.ok THEN FormatRErr(rs.err)
             ELSE IF ~rt.ok THEN FormatRErr(rt.err)
             ELSE [ok |-> TRUE, rd |-> rd.val, rs |-> rs.val, rt |-> rt.val,
                   shamt |-> 0, err |-> ""]

MN_AND == <<"a","n","d">>

MN_OR == <<"o","r">>

MN_ADD == <<"a","d","d">>

MN_SUB == <<"s","u","b">>

MN_SLT == <<"s","l","t">>

InsErr(e) == [ok |-> FALSE, op |-> "", f |-> FormatRErr(e), err |-> e]

try_parse_ins(line, mnemonic) ==
    LET args == Split(StripPrefix(line, mnemonic), ",")
        op == IF mnemonic = MN_AND THEN "And"
              ELSE IF mnemonic = MN_OR THEN "Or"
              ELSE IF mnemonic = MN_ADD THEN "Add"
              ELSE IF mnemonic = MN_SUB THEN "Sub"
              ELSE IF mnemonic = MN_SLT THEN "Slt"
              ELSE ""
        f == try_parse_3arg(line, args)
    IN  IF op = "" THEN InsErr("UnknownInstruction")
        ELSE IF ~f.ok THEN InsErr(f.err)
        ELSE [ok |-> TRUE, op |-> op, f |-> f, err |-> ""]

\* Instruction::encode: opcode(6)=0 | rs(5) | rt(5) | rd(5) | shamt(5) | funct(6)
Funct(op) ==
    CASE op = "And" -> 36
      [] op = "Or"  -> 37
      [] op = "Add" -> 32
      [] op = "Sub" -> 34
      [] op = "Slt" -> 42

encode(ins) ==
    Mk(ins.f.rs * 32 + ins.f.rt, ins.f.rd * 2048 + ins.f.shamt * 64 + Funct(ins.op))

EndianMode == {"Little", "Big"}

\* the bytes of a u32, lowest address first, in the given byte order
ToBytes(order, v) ==
    IF order = "Little"
    THEN <<v[2] % 256, v[2] \div 256, v[1] % 256, v[1] \div 256>>
    ELSE <<v[1] \div 256, v[1] % 256, v[2] \div 256, v[2] % 256>>

FromBytes(order, b) ==
    IF order = "Little"
    THEN Mk(b[4] * 256 + b[3], b[2] * 256 + b[1])
    ELSE Mk(b[1] * 256 + b[2], b[3] * 256 + b[4])

VARIABLES
    host,            \* the byte order of the machine the build targets
    asm,             \* assemble: the lines of the source read so far
    segs, curr_seg, global_labels, is_text_seg,
    next_data_addr, next_text_addr,
    ret,             \* assemble: "" in the loop, "Ok", or the error returned
    clean_after_reset, exec,      \* State.inner
    last_op,         \* the operation of State called last
    result,          \* what it returned: "Ok" or "Err"
    engine,          \* the entry point of the Executor it invoked, "" for none
    input,           \* the arguments it was called with
    output,          \* read_memory: the address handed to read_into_slice
    notify,          \* the notification it sent: <<payload>>, or <<>> for none
    running,         \* looper: whether the run-loop is active
    scan,            \* capture_disasm: "idle", in the "back" or "fwd" loop, "done"
    mapping, scan_addr, nop_cnt   \* capture_disasm: its locals mapping, addr, nop_cnt

asm_vars == <<asm, segs, curr_seg, global_labels, is_text_seg,
              next_data_addr, next_text_addr, ret>>

disasm_vars == <<scan, mapping, scan_addr, nop_cnt>>

state_vars == <<clean_after_reset, exec, last_op, result, engine,
                input, output, notify, running>>

\* u32::to_ne_bytes
to_ne_bytes(v) == ToBytes(host, v)

TEXT_SEGMENT == [start |-> Mk(64, 0), end |-> Mk(4095, 65535)]

DATA_SEGMENT == [start |-> Mk(4096, 0), end |-> Mk(32767, 65535)]

MAX_LINE_LEN == 8192

DOT_TEXT == <<".","t","e","x","t">>

DOT_DATA == <<".","d","a","t","a">>

DOT_GLOBL == <<".","g","l","o","b","l">>

DOT_WORD == <<".","w","o","r","d">>

Segment_new(base_addr) == [base_addr |-> base_addr, data |-> <<>>, labels |-> {}]

\* the locals of assemble at the top of the loop
AsmStart ==
    [segs |-> <<>>, curr_seg |-> <<>>, global_labels |-> {}, is_text_seg |-> FALSE,
     next_data_addr |-> Mk(4096, 0), next_text_addr |-> Mk(64, 0), ret |-> ""]

\* mutant: the comment is not cut off
M_LineBody(raw) == Trim(raw)

\* the line as the loop body sees it: trimmed, then cut at the first '#'
LineBody(raw) ==
    LET t == Trim(raw)
        comment_pos == Find(t, "#")
    IN  IF comment_pos # 0 THEN SubSeq(t, 1, comment_pos - 1) ELSE t

SegEnd(seg) == U32AddInt(seg.base_addr, Len(seg.data))

\* mutant: both marks are advanced
M_AdvanceBoth(st, seg) ==
    [st EXCEPT !.curr_seg = <<seg>>,
               !.next_text_addr = U32Max(st.next_text_addr, SegEnd(seg)),
               !.next_data_addr = U32Max(st.next_data_addr, SegEnd(seg))]

\* mutant: the mark of the other class is advanced
M_AdvanceMark(st, seg) ==
    IF ~st.is_text_seg
    THEN [st EXCEPT !.curr_seg = <<seg>>,
                    !.next_text_addr = U32Max(st.next_text_addr, SegEnd(seg))]
    ELSE [st EXCEPT !.curr_seg = <<seg>>,
                    !.next_data_addr = U32Max(st.next_data_addr, SegEnd(seg))]

\* the high-water mark update after bytes were appended to the open segment
AdvanceMark(st, seg) ==
    IF st.is_text_seg
    THEN [st EXCEPT !.curr_seg = <<seg>>,
                    !.next_text_addr = U32Max(st.next_text_addr, SegEnd(seg))]
    ELSE [st EXCEPT !.curr_seg = <<seg>>,
                    !.next_data_addr = U32Max(st.next_data_addr, SegEnd(seg))]

\* mutant: a segment that received no bytes is dropped
M_PushCurrSeg(st) ==
    IF st.curr_seg # <<>> /\ st.curr_seg[1].data # <<>>
    THEN Append(st.segs, st.curr_seg[1])
    ELSE st.segs

PushCurrSeg(st) ==
    IF st.curr_seg # <<>> THEN Append(st.segs, st.curr_seg[1]) ELSE st.segs

\* the base address of a directive: its argument if that parses as a number,
\* the class's high-water mark otherwise; rest: the tokens after the directive
DirectiveBase(st, first_token, rest) ==
    IF rest # <<>> /\ try_parse_number(rest[1]).some THEN try_parse_number(rest[1]).val
    ELSE IF first_token = DOT_TEXT THEN st.next_text_addr
    ELSE st.next_data_addr

SegType(first_token) == IF first_token = DOT_TEXT THEN TEXT_SEGMENT ELSE DATA_SEGMENT

\* mutant: only the lower end of the range is checked
M_DirectiveOpen(st, seg_type, base_addr, rest) ==
    IF U32Lt(base_addr, seg_type.start)
    THEN [st EXCEPT !.ret = "BaseAddressOutOfRange"]
    ELSE IF Len(rest) > 1
    THEN [st EXCEPT !.curr_seg = <<Segment_new(base_addr)>>, !.ret = "TrailingToken"]
    ELSE [st EXCEPT !.curr_seg = <<Segment_new(base_addr)>>]

\* the range check, the new segment and the trailing-token check
DirectiveOpen(st, seg_type, base_addr, rest) ==
    IF ~RangeContains(seg_type, base_addr)
    THEN [st EXCEPT !.ret = "BaseAddressOutOfRange"]
    ELSE IF Len(rest) > 1
    THEN [st EXCEPT !.curr_seg = <<Segment_new(base_addr)>>, !.ret = "TrailingToken"]
    ELSE [st EXCEPT !.curr_seg = <<Segment_new(base_addr)>>]

\* .text / .data
DirectiveLine(st, first_token, rest) ==
    DirectiveOpen([st EXCEPT !.segs = PushCurrSeg(st), !.curr_seg = <<>>,
                             !.is_text_seg = (first_token = DOT_TEXT)],
                  SegType(first_token), DirectiveBase(st, first_token, rest), rest)

GloblLine(st, rest) ==
    IF rest = <<>> THEN [st EXCEPT !.ret = "RequiredArgNotFound"]
    ELSE IF st.curr_seg = <<>> THEN [st EXCEPT !.ret = "SegmentRequired"]
    ELSE [st EXCEPT !.global_labels = @ \cup {rest[1]}]

RECURSIVE WordBytes(_)
WordBytes(values) ==
    IF values = <<>> \/ ~Head(values).some THEN <<>>
    ELSE to_ne_bytes(Head(values).val) \o WordBytes(Tail(values))

\* mutant: the operands are parsed before the open segment is asked for
M_WordLine(st, line, first_token) ==
    IF \E i \in 1..Len(Split(StripPrefix(line, first_token), ",")) :
           ~try_parse_number(Trim(Split(StripPrefix(line, first_token), ",")[i])).some
    THEN [st EXCEPT !.ret = "InvalidToken"]
    ELSE [st EXCEPT !.ret = "SegmentRequired"]

WordLine(st, line, first_token) ==
    IF st.curr_seg = <<>> THEN [st EXCEPT !.ret = "SegmentRequired"]
    ELSE LET pieces == Split(StripPrefix(line, first_token), ",")
             values == [i \in 1..Len(pieces) |-> try_parse_number(Trim(pieces[i]))]
             seg == [st.curr_seg[1] EXCEPT !.data = @ \o WordBytes(values)]
         IN  IF \E i \in 1..Len(values) : ~values[i].some
             THEN [st EXCEPT !.curr_seg = <<seg>>, !.ret = "InvalidToken"]
             ELSE AdvanceMark(st, seg)

InsLine(st, line, first_token) ==
    LET ins == try_parse_ins(line, first_token)
    IN  IF ~ins.ok THEN [st EXCEPT !.ret = ins.err]
        ELSE IF st.curr_seg = <<>> THEN [st EXCEPT !.ret = "SegmentRequired"]
        ELSE AdvanceMark(st, [st.curr_seg[1] EXCEPT
                                  !.data = @ \o to_ne_bytes(encode(ins))])

\* which branch of the loop body a line takes, by its first token
TokenKind(first_token) ==
    IF first_token = DOT_TEXT \/ first_token = DOT_DATA THEN "directive"
    ELSE IF first_token = DOT_GLOBL THEN "globl"
    ELSE IF first_token = DOT_WORD THEN "word"
    ELSE "ins"

BodyKind(line) ==
    IF line = <<>> THEN "blank"
    ELSE IF Len(line) > MAX_LINE_LEN THEN "long"
    ELSE TokenKind(SplitWhitespace(line)[1])

LineKind(raw) == BodyKind(LineBody(raw))

\* the dispatch on the first token
AsmTokens(st, line, tokens) ==
    CASE TokenKind(tokens[1]) = "directive" -> DirectiveLine(st, tokens[1], Tail(tokens))
      [] TokenKind(tokens[1]) = "globl" -> GloblLine(st, Tail(tokens))
      [] TokenKind(tokens[1]) = "word" -> WordLine(st, line, tokens[1])
      [] TokenKind(tokens[1]) = "ins" -> InsLine(st, line, tokens[1])

AsmBody(st, line) ==
    IF line = <<>> THEN st
    ELSE IF Len(line) > MAX_LINE_LEN THEN [st EXCEPT !.ret = "LineTooLong"]
    ELSE AsmTokens(st, line, SplitWhitespace(line))

\* one iteration of the loop over asm.lines()
AsmLine(st, raw) == AsmBody(st, LineBody(raw))

\* after the loop: flush the open segment and return Ok(segs)
AsmEnd(st) == [st EXCEPT !.segs = PushCurrSeg(st), !.curr_seg = <<>>, !.ret = "Ok"]

RECURSIVE AsmLoop(_, _)
\* mutant: the loop goes on after a line that returned an error
M_AsmContinue(st, lines) == AsmLoop(st, lines)

\* the loop goes on unless the line returned an error
AsmContinue(st, lines) == IF st.ret # "" THEN st ELSE AsmLoop(st, lines)

\* the locals after a line are computed once, then handed to the rest of the loop
AsmLoop(st, lines) ==
    IF lines = <<>> THEN AsmEnd(st)
    ELSE CHOOSE r \in {AsmContinue(s, Tail(lines)) : s \in {AsmLine(st, Head(lines))}} : TRUE

\* assemble(asm): the locals at the return
assemble(lines) == AsmLoop(AsmStart, lines)

\* the Result assemble returns: Ok with the segments, or Err with the error alone
AssembleResult(st) ==
    IF st.ret = "Ok" THEN [ok |-> TRUE, segs |-> st.segs] ELSE [ok |-> FALSE, err |-> st.ret]

(***************************************************************************)
(* The assembler as a state machine: one step per line of the source       *)
(***************************************************************************)
MaxLines == 4

SP == <<" ">>

HEX_TOP_TEXT == <<"0","x","0","F","F","F","F","F","F","F">>

HEX_LOW_TEXT == <<"0","x","0","0","4","0","0","0","0","0">>

L_EMPTY == <<>>

L_COMMENT == <<" ","\t","#"," ","c">>

L_TEXT == DOT_TEXT

L_DATA == SP \o DOT_DATA \o <<" ","#",".","t","e","x","t">>

L_TEXT_TOP == DOT_TEXT \o SP \o HEX_TOP_TEXT

L_DATA_LOW == DOT_DATA \o SP \o HEX_LOW_TEXT

L_TEXT_FOO == DOT_TEXT \o SP \o <<"f","o","o">>

L_DATA_TRAIL == DOT_DATA \o SP \o <<"0","x","1","0","0","0","0","0","0","0"," ","x">>

L_WORD == DOT_WORD \o <<" ","0","x","1","2","3",","," ","1">>

L_WORD_BAD == DOT_WORD \o <<" ","7",",","z","z">>

L_ADD == MN_ADD \o <<" ","$","0",","," ","$","4",","," ","$","1","2">>

L_SUB == MN_SUB \o <<" ","$","2",",","$","s","0",",","$","z","e","r","o"," ","#","c">>

L_UNKNOWN == <<"b","a","d"," ","$","1",",","$","2",",","$","3">>

L_ADD_2 == MN_ADD \o <<" ","$","1",",","$","2">>

L_ADD_4 == MN_ADD \o <<" ","$","1",",","$","2",",","$","3",",","$","4">>

L_OR_V1 == MN_OR \o <<" ","$","1",",","$","v","1",",","$","3">>

L_GLOBL == DOT_GLOBL \o <<" ","m","a","i","n">>

L_GLOBL_NONE == DOT_GLOBL

\* the lines a source is made of
Lines ==
    {L_EMPTY, L_COMMENT, L_TEXT, L_DATA, L_TEXT_TOP, L_DATA_LOW, L_TEXT_FOO,
     L_DATA_TRAIL, L_WORD, L_WORD_BAD, L_ADD, L_SUB, L_UNKNOWN, L_ADD_2, L_ADD_4,
     L_OR_V1, L_GLOBL, L_GLOBL_NONE}

Locals ==
    [segs |-> segs, curr_seg |-> curr_seg, global_labels |-> global_labels,
     is_text_seg |-> is_text_seg, next_data_addr |-> next_data_addr,
     next_text_addr |-> next_text_addr, ret |-> ret]

SetLocals(st) ==
    /\ segs' = st.segs
    /\ curr_seg' = st.curr_seg
    /\ global_labels' = st.global_labels
    /\ is_text_seg' = st.is_text_seg
    /\ next_data_addr' = st.next_data_addr
    /\ next_text_addr' = st.next_text_addr
    /\ ret' = st.ret

\* the lines of each branch of the loop body
LinesOfKind(kind) == {raw \in Lines : LineKind(raw) = kind}

BlankLines == LinesOfKind("blank")

DirectiveLines == LinesOfKind("directive")

GloblLines == LinesOfKind("globl")

WordLines == LinesOfKind("word")

InsLines == LinesOfKind("ins")

\* the loop reads the next line of the source
ReadLine(raw) ==
    /\ ret = ""
    /\ Len(asm) < MaxLines
    /\ asm' = Append(asm, raw)
    /\ UNCHANGED host

AsmBlank ==
    \E raw \in BlankLines :
        /\ ReadLine(raw)
        /\ SetLocals(Locals)

AsmDirective ==
    \E raw \in DirectiveLines :
        /\ ReadLine(raw)
        /\ SetLocals(DirectiveLine(Locals, SplitWhitespace(LineBody(raw))[1],
                                   Tail(SplitWhitespace(LineBody(raw)))))

AsmGlobl ==
    \E raw \in GloblLines :
        /\ ReadLine(raw)
        /\ SetLocals(GloblLine(Locals, Tail(SplitWhitespace(LineBody(raw)))))

AsmWord ==
    \E raw \in WordLines :
        /\ ReadLine(raw)
        /\ SetLocals(WordLine(Locals, LineBody(raw), SplitWhitespace(LineBody(raw))[1]))

AsmIns ==
    \E raw \in InsLines :
        /\ ReadLine(raw)
        /\ SetLocals(InsLine(Locals, LineBody(raw), SplitWhitespace(LineBody(raw))[1]))

\* the source has no more lines
AsmReturn ==
    /\ ret = ""
    /\ SetLocals(AsmEnd(Locals))
    /\ UNCHANGED <<asm, host>>

AsmStartVars ==
    /\ asm = <<>>
    /\ segs = AsmStart.segs
    /\ curr_seg = AsmStart.curr_seg
    /\ global_labels = AsmStart.global_labels
    /\ is_text_seg = AsmStart.is_text_seg
    /\ next_data_addr = AsmStart.next_data_addr
    /\ next_text_addr = AsmStart.next_text_addr
    /\ ret = AsmStart.ret

vars == <<host, asm_vars, state_vars, disasm_vars>>

(***************************************************************************)
(* memory, the register file and the two engines                           *)
(***************************************************************************)
create_empty_memory(endian) == [endian |-> endian, segs |-> <<>>]

create_memory(endian, ss) == [endian |-> endian, segs |-> ss]

InSeg(seg, addr) == U32Le(seg.base_addr, addr) /\ U32Lt(addr, SegEnd(seg))

\* the byte at addr: a segment's byte, zero in the gaps
read_u8(mem, addr) ==
    LET hit == {i \in 1..Len(mem.segs) : InSeg(mem.segs[i], addr)}
    IN  IF hit = {} THEN 0
        ELSE LET seg == mem.segs[CHOOSE i \in hit : \A j \in hit : i <= j]
                 off == (addr[1] - seg.base_addr[1]) * Half + addr[2] - seg.base_addr[2]
             IN  seg.data[off + 1]

read_u32(mem, addr) ==
    FromBytes(mem.endian, [i \in 1..4 |-> read_u8(mem, U32AddInt(addr, i - 1))])

RECURSIVE BitAnd(_, _)
BitAnd(a, b) ==
    IF a = 0 \/ b = 0 THEN 0
    ELSE (a % 2) * (b % 2) + 2 * BitAnd(a \div 2, b \div 2)

RECURSIVE BitOr(_, _)
BitOr(a, b) ==
    IF a = 0 THEN b
    ELSE IF b = 0 THEN a
    ELSE (IF a % 2 = 1 \/ b % 2 = 1 THEN 1 ELSE 0) + 2 * BitOr(a \div 2, b \div 2)

U32Add(a, b) ==
    LET lo == a[2] + b[2]
    IN  Mk((a[1] + b[1] + lo \div Half) % Half, lo % Half)

U32Sub(a, b) ==
    LET lo == a[2] - b[2] + Half
    IN  Mk((a[1] - b[1] + 2 * Half - (IF lo < Half THEN 1 ELSE 0)) % Half, lo % Half)

SignedLt(a, b) ==
    LET na == a[1] >= Half \div 2
        nb == b[1] >= Half \div 2
    IN  (na /\ ~nb) \/ (na = nb /\ U32Lt(a, b))

\* decode: the inverse of encode; fails on a word outside the modelled subset
decode(w) ==
    LET funct == w[2] % 64
        op == CASE funct = 36 -> "And"
                [] funct = 37 -> "Or"
                [] funct = 32 -> "Add"
                [] funct = 34 -> "Sub"
                [] funct = 42 -> "Slt"
                [] OTHER -> ""
    IN  IF w[1] \div 1024 # 0 \/ op = "" THEN [ok |-> FALSE, op |-> "", rd |-> 0, rs |-> 0, rt |-> 0]
        ELSE [ok |-> TRUE, op |-> op, rd |-> w[2] \div 2048,
              rs |-> (w[1] \div 32) % 32, rt |-> w[1] % 32]

Alu(op, a, b) ==
    CASE op = "And" -> Mk(BitAnd(a[1], b[1]), BitAnd(a[2], b[2]))
      [] op = "Or"  -> Mk(BitOr(a[1], b[1]), BitOr(a[2], b[2]))
      [] op = "Add" -> U32Add(a, b)
      [] op = "Sub" -> U32Sub(a, b)
      [] op = "Slt" -> IF SignedLt(a, b) THEN Mk(0, 1) ELSE Mk(0, 0)

\* the program counter of a newly built engine: the start-up region or the
\* lowest TEXT address
EntryPcs == {Mk(0, 0), Mk(64, 0)}

Arch_new(kind, mem, pc) ==
    [kind |-> kind, regs |-> [r \in 0..(NUM_REGS - 1) |-> Mk(0, 0)], pc |-> pc, mem |-> mem]

\* Executor::step: fetch, decode, execute, advance; an error leaves the state as it was
engine_step(ex) ==
    LET i == decode(read_u32(ex.mem, ex.pc))
    IN  IF ~i.ok THEN [ok |-> FALSE, ex |-> ex]
        ELSE [ok |-> TRUE,
              ex |-> [ex EXCEPT !.regs[i.rd] = Alu(i.op, ex.regs[i.rs], ex.regs[i.rt]),
                                !.pc = U32AddInt(ex.pc, 4)]]

MaxExecSteps == 2

\* Executor::exec: a bounded pass of n steps that ends at the first error
RECURSIVE engine_exec(_, _)
engine_exec(ex, n) ==
    IF n = 0 THEN [ok |-> TRUE, ex |-> ex]
    ELSE LET r == engine_step(ex)
         IN  IF ~r.ok THEN r ELSE engine_exec(r.ex, n - 1)

(***************************************************************************)
(* webapi/state.rs                                                         *)
(***************************************************************************)
PC_RUNNABLE == 4096

PAGE_SIZE == 4096

EndianMode_native == host

Inner_default(pc) ==
    [clean_after_reset |-> TRUE,
     exec |-> Arch_new("ExInterpreter", create_empty_memory(EndianMode_native), pc)]

capture_can_use_jit(ex) == ex.kind = "ExJit"

\* what notify_all captures of the session; the disassembly window it sends
\* with it is capture_disasm of the same Executor (DisasmSpec below)
Captured(clean, ex, run) ==
    [clean_after_reset |-> clean, regs |-> ex.regs, pc |-> ex.pc,
     running |-> run, can_use_jit |-> capture_can_use_jit(ex)]

\* called last in an operation: the assignments of the operation come first
notify_all == notify' = <<Captured(clean_after_reset', exec', running')>>

\* an operation that returns without calling notify_all
Silent == notify' = <<>>

NoArgs == <<>>

\* an operation that hands nothing to read_into_slice
NoOutput == output' = <<>>

\* the registers and values edit_register is called with
EditRegs == {4, 12}

EditVals == {Mk(0, 5), Mk(65535, 65535)}

\* the sources State::assemble is called with
Sources ==
    { <<L_TEXT, L_ADD, L_SUB>>, <<L_DATA, L_WORD, L_TEXT, L_ADD>>, <<L_COMMENT>>,
      <<L_TEXT, L_ADD, L_UNKNOWN>>, <<L_WORD_BAD>>, <<L_TEXT, L_WORD, L_DATA_LOW>> }

\* the pages read_memory is called with: 1, 0xFFFFF (the last page) and 0x100001
PageIdxs == {Mk(0, 1), Mk(15, 65535), Mk(16, 1)}

Called(op, args, res, eng) ==
    /\ last_op' = op
    /\ input' = args
    /\ result' = res
    /\ engine' = eng
    /\ UNCHANGED <<host, asm_vars, disasm_vars>>

DisasmIdle ==
    /\ scan = "idle"
    /\ mapping = <<>>
    /\ scan_addr = Mk(0, 0)
    /\ nop_cnt = 0

State_new ==
    /\ host \in EndianMode
    /\ \E pc \in EntryPcs :
          /\ clean_after_reset = Inner_default(pc).clean_after_reset
          /\ exec = Inner_default(pc).exec
    /\ last_op = "new"
    /\ input = NoArgs
    /\ result = "Ok"
    /\ engine = ""
    /\ output = <<>>
    /\ running = FALSE
    /\ notify = <<Captured(clean_after_reset, exec, running)>>

State_reset ==
    /\ \E pc \in EntryPcs :
          /\ clean_after_reset' = Inner_default(pc).clean_after_reset
          /\ exec' = Inner_default(pc).exec
    /\ Called("reset", NoArgs, "Ok", "")
    /\ NoOutput
    /\ UNCHANGED running
    /\ notify_all

\* mutant: the Executor is rebuilt before the result of assemble is looked at
M_State_assemble_inner(r, endian, pc) ==
    IF endian = EndianMode_native
    THEN [exec |-> Arch_new("ExJit", create_memory(endian, r.segs), pc),
          result |-> IF r.ret = "Ok" THEN "Ok" ELSE "Err", notifies |-> r.ret = "Ok"]
    ELSE [exec |-> Arch_new("ExInterpreter", create_memory(endian, r.segs), pc),
          result |-> IF r.ret = "Ok" THEN "Ok" ELSE "Err", notifies |-> r.ret = "Ok"]

\* mutant: the JIT engine is built whatever the endianness is
M_State_assemble_jit(r, endian, pc) ==
    IF r.ret # "Ok" THEN [exec |-> exec, result |-> "Err", notifies |-> FALSE]
    ELSE [exec |-> Arch_new("ExJit", create_memory(endian, r.segs), pc),
          result |-> "Ok", notifies |-> TRUE]

\* what State::assemble leaves in inner.exec, what it returns and whether it
\* gets as far as notify_all, given what assemble returned
State_assemble_inner(r, endian, pc) ==
    IF r.ret # "Ok" THEN [exec |-> exec, result |-> "Err", notifies |-> FALSE]
    ELSE IF endian = EndianMode_native
    THEN [exec |-> Arch_new("ExJit", create_memory(endian, r.segs), pc),
          result |-> "Ok", notifies |-> TRUE]
    ELSE [exec |-> Arch_new("ExInterpreter", create_memory(endian, r.segs), pc),
          result |-> "Ok", notifies |-> TRUE]

\* mutant: State::assemble builds a whole new Inner, as reset does
M_Assembled(r, args) ==
    /\ exec' = r.exec
    /\ clean_after_reset' = TRUE
    /\ Called("assemble", args, r.result, "")
    /\ NoOutput
    /\ UNCHANGED running
    /\ IF r.notifies THEN notify_all ELSE Silent

Assembled(r, args) ==
    /\ exec' = r.exec
    /\ UNCHANGED clean_after_reset
    /\ Called("assemble", args, r.result, "")
    /\ NoOutput
    /\ UNCHANGED running
    /\ IF r.notifies THEN notify_all ELSE Silent

AssembleWith(r) ==
    \E endian \in EndianMode, pc \in EntryPcs :
        Assembled(State_assemble_inner(r, endian, pc), [endian |-> endian])

State_assemble == \E code \in Sources : AssembleWith(assemble(code))

State_edit_register ==
    \E r \in EditRegs, val \in EditVals :
        /\ clean_after_reset' = FALSE
        /\ exec' = [exec EXCEPT !.regs[r] = val]
        /\ Called("edit_register", [r |-> r, val |-> val], "Ok", "")
        /\ NoOutput
    /\ UNCHANGED running
        /\ notify_all

\* page_idx * 4096 in u32: the product does not fit from page 0x100000 on
MulOverflows(page_idx) == page_idx[1] >= 16

\* the product modulo 2^32
WrappingMul(page_idx) ==
    Mk(((page_idx[1] % 16) * Half + page_idx[2]) \div 16, (page_idx[2] % 16) * PAGE_SIZE)

\* `let addr = page_idx * 4096`: with overflow checks (a debug build) a
\* product that does not fit panics, without them (a release build) it wraps
read_memory_inner(page_idx, overflow_checks) ==
    IF MulOverflows(page_idx) /\ overflow_checks
    THEN [result |-> "Panic", output |-> <<>>]
    ELSE [result |-> "Ok", output |-> <<WrappingMul(page_idx)>>]

ReadMemory(r, page_idx) ==
    /\ output' = r.output
    /\ Called("read_memory", [page_idx |-> page_idx], r.result, "")
    /\ UNCHANGED <<clean_after_reset, exec, running>>
    /\ Silent

State_read_memory ==
    \E page_idx \in PageIdxs, overflow_checks \in BOOLEAN :
        ReadMemory(read_memory_inner(page_idx, overflow_checks), page_idx)

\* step_silent's body after the flag is cleared: the engine it calls and the outcome
Invoked(r, entry) == [ok |-> r.ok, ex |-> r.ex, engine |-> entry]

\* mutant: the engine is stepped whatever the program counter is
M_step_silent_inner(ex) == Invoked(engine_step(ex), "step")

step_silent_inner(ex) ==
    IF U32Lt(ex.pc, U32FromInt(PC_RUNNABLE))
    THEN [ok |-> TRUE, ex |-> ex, engine |-> ""]
    ELSE Invoked(engine_step(ex), "step")

exec_silent_inner(ex, n) ==
    IF U32Lt(ex.pc, U32FromInt(PC_RUNNABLE))
    THEN [ok |-> TRUE, ex |-> ex, engine |-> ""]
    ELSE Invoked(engine_exec(ex, n), "exec")

Returned(op, r) ==
    /\ clean_after_reset' = FALSE
    /\ exec' = r.ex
    /\ Called(op, NoArgs, IF r.ok THEN "Ok" ELSE "Err", r.engine)
    /\ NoOutput

State_step ==
    /\ Returned("step", step_silent_inner(exec))
    /\ UNCHANGED running
    /\ notify_all

State_step_silent ==
    /\ Returned("step_silent", step_silent_inner(exec))
    /\ UNCHANGED running
    /\ Silent

State_exec_silent ==
    /\ \E n \in 1..MaxExecSteps : Returned("exec_silent", exec_silent_inner(exec, n))
    /\ UNCHANGED running
    /\ Silent

\* looper::start: starting while the loop is running is a no-op
looper_start(run) == TRUE

looper_stop(run) == FALSE

looper_is_running(run) == run

State_run ==
    \E allow_jit \in BOOLEAN :
        /\ running' = looper_start(running)
        /\ Called("run", [allow_jit |-> allow_jit], "Ok", "")
        /\ NoOutput
        /\ UNCHANGED <<clean_after_reset, exec>>
        /\ Silent

State_stop ==
    /\ running' = looper_stop(running)
    /\ Called("stop", NoArgs, "Ok", "")
    /\ NoOutput
    /\ UNCHANGED <<clean_after_reset, exec>>
    /\ notify_all

\* one pass of the run-loop on its thread: exec_silent under the lock of the
\* session; a fatal error ends the loop
Looper_pass ==
    /\ looper_is_running(running)
    /\ \E n \in 1..MaxExecSteps : Returned("loop", exec_silent_inner(exec, n))
    /\ running' = (result' = "Ok")
    /\ Silent

Init == State_new /\ AsmStartVars /\ DisasmIdle

Next ==
    \/ State_reset
    \/ State_assemble
    \/ State_edit_register
    \/ State_read_memory
    \/ State_step
    \/ State_step_silent
    \/ State_exec_silent
    \/ State_run
    \/ State_stop
    \/ Looper_pass

Spec == Init /\ [][Next]_vars

(***************************************************************************)
(* Properties of the session (Spec)                                        *)
(***************************************************************************)
SteppingOps == {"step", "step_silent", "exec_silent"}

NotRunnable(pc) == pc[1] = 0 /\ pc[2] < 4096

\* C1: when State::assemble returns an error, the Executor (engine kind,
\* registers, PC, memory) and the clean-after-reset flag are what they were
\* before the call, whatever operations came before.
C1_FailedAssembleKeepsSession ==
    [][(last_op' = "assemble" /\ result' = "Err")
          => (exec' = exec /\ clean_after_reset' = clean_after_reset)]_vars

\* C1 witness: a failed assemble on a session that an earlier assemble, an
\* edit and a step have changed
C1_Witness ==
    /\ last_op = "assemble"
    /\ result = "Err"
    /\ exec.kind = "ExJit"
    /\ ~clean_after_reset
    /\ exec.regs[4] # Mk(0, 0)
    /\ exec.pc \notin EntryPcs

\* C10: with the PC below 0x1000, step, step_silent and exec_silent return
\* success, invoke no engine entry point, and leave registers, PC and memory
\* as they were.
C10_BelowRunnableIsNoOp ==
    [][(NotRunnable(exec.pc) /\ last_op' \in SteppingOps)
          => (result' = "Ok" /\ engine' = "" /\ exec' = exec)]_vars

\* C10 witness: such a step on a session holding an assembled program and an
\* edited register
C10_Witness ==
    /\ last_op \in SteppingOps
    /\ NotRunnable(exec.pc)
    /\ result = "Ok"
    /\ engine = ""
    /\ exec.mem.segs # <<>>
    /\ exec.regs[12] # Mk(0, 0)

\* C11: the Executor is the JIT engine only over a memory built with the
\* host's endianness, and can_use_jit is true exactly when the latest
\* successful assemble since construction or the last reset was called with
\* the host's endianness: false after construction and after reset, set by a
\* successful assemble according to its endianness, and left as it was by
\* every other call (a failed assemble included).
C11_JitOnlyOnNativeEndianness ==
    /\ [](capture_can_use_jit(exec) => exec.mem.endian = EndianMode_native)
    /\ [](last_op = "new" => ~capture_can_use_jit(exec))
    /\ [][capture_can_use_jit(exec') =
             IF last_op' = "assemble" /\ result' = "Ok"
             THEN input'.endian = EndianMode_native
             ELSE IF last_op' = "reset" THEN FALSE
             ELSE capture_can_use_jit(exec)]_vars

\* C11 witness: a failed assemble with the swapped endianness on a session
\* whose latest successful assemble used the host's endianness
C11_Witness ==
    /\ last_op = "assemble"
    /\ result = "Err"
    /\ input.endian # EndianMode_native
    /\ capture_can_use_jit(exec)
    /\ exec.mem.endian = EndianMode_native

\* the calls that clear the flag: edit_register, step (and its silent
\* variant) and exec, from the foreground or from a pass of the run-loop
ClearingOps == {"edit_register", "step", "step_silent", "exec_silent", "loop"}

\* C12: the clean-after-reset flag is true after construction and after
\* reset, false after any edit_register, step or exec, and left as it was by
\* every other call (assemble, read_memory, run, stop), so that once cleared
\* it stays false until the next reset; a notification reports the flag as
\* it is.
C12_CleanFlagFollowsResetAndMutation ==
    /\ [](last_op = "new" => clean_after_reset)
    /\ [](notify # <<>> => notify[1].clean_after_reset = clean_after_reset)
    /\ [][clean_after_reset' =
             IF last_op' = "reset" THEN TRUE
             ELSE IF last_op' \in ClearingOps THEN FALSE
             ELSE clean_after_reset]_vars

\* C12 witness: a successful assemble that notifies a session whose flag an
\* earlier call had cleared, with the run-loop started in between
C12_Witness ==
    /\ last_op = "assemble"
    /\ result = "Ok"
    /\ notify # <<>>
    /\ ~notify[1].clean_after_reset
    /\ running

\* the operations of State that are to notify
NotifyingOps == {"assemble", "reset", "edit_register", "step", "run", "stop",
                 "read_memory"}

\* C13 as stated: every call of assemble, reset, edit_register, step, run,
\* stop and read_memory, successful or not, sends a notification that holds
\* the state the call has left.
C13_Original ==
    [][last_op' \in NotifyingOps
          => notify' = <<Captured(clean_after_reset', exec', running')>>]_vars

\* C14 as stated: an assemble called while the run-loop is active is either
\* rejected, leaving the Executor in place, or has stopped the run-loop by
\* the time the new Executor is in place.
C14_Original ==
    [][(looper_is_running(running) /\ last_op' = "assemble")
          => \/ (result' = "Err" /\ exec' = exec)
             \/ ~looper_is_running(running')]_vars

\* a is the product page_idx * 4096 and the product fits in 32 bits
IsPageAddress(a, page_idx) ==
    /\ page_idx[1] * PAGE_SIZE + page_idx[2] \div 16 < Half
    /\ a = Mk(page_idx[1] * PAGE_SIZE + page_idx[2] \div 16, (page_idx[2] % 16) * PAGE_SIZE)

\* C16 as stated: for every page_idx, read_memory returns having read at the
\* address page_idx * 4096, and leaves the Executor and the flag as they were.
C16_Original ==
    [][last_op' = "read_memory"
          => /\ result' = "Ok"
             /\ output' # <<>>
             /\ IsPageAddress(output'[1], input'.page_idx)
             /\ exec' = exec
             /\ clean_after_reset' = clean_after_reset]_vars

(***************************************************************************)
(* Properties of assemble (AsmSpec)                                        *)
(***************************************************************************)
Last == asm[Len(asm)]

\* the tokens and the branch of each line of Lines
TokensTable == [raw \in Lines |-> SplitWhitespace(LineBody(raw))]

KindTable == [raw \in Lines |-> LineKind(raw)]

LastTokens == TokensTable[Last]

KindAt(i) == KindTable[asm[i]]

\* the positions of the directive lines read so far, in order
DirIdx == SelectSeq([i \in 1..Len(asm) |-> i], LAMBDA i : KindAt(i) = "directive")

\* the segments opened so far, in order
AllSegs == segs \o curr_seg

IsTextDirective(raw) == TokensTable[raw][1] = DOT_TEXT

\* addr lies in the range of the class the directive line opens
InClass(raw, addr) ==
    IF IsTextDirective(raw)
    THEN U32Le(Mk(64, 0), addr) /\ U32Le(addr, Mk(4095, 65535))
    ELSE U32Le(Mk(4096, 0), addr) /\ U32Le(addr, Mk(32767, 65535))

LowestOf(raw) == IF IsTextDirective(raw) THEN Mk(64, 0) ELSE Mk(4096, 0)

EndOf(seg) == U32AddInt(seg.base_addr, Len(seg.data))

U32MaxOf(S) == CHOOSE m \in S : \A y \in S : U32Le(y, m)

\* the lines between directive k and the next one that append bytes
ContentOf(k) ==
    {i \in (DirIdx[k] + 1)..((IF k < Len(DirIdx) THEN DirIdx[k + 1] ELSE Len(asm) + 1) - 1) :
        KindAt(i) \in {"word", "ins"}}

\* the address a directive line gives, if it gives one that is a number
GivenBase(raw) ==
    IF Len(TokensTable[raw]) >= 2 THEN try_parse_number(TokensTable[raw][2]) ELSE None

\* C2: a successful assembly returns one segment per directive line, in the
\* order of the directives (each in the class of its directive, at the
\* directive's address if it gives one), and a segment is empty exactly when
\* no line between its directive and the next appended bytes.
C2_OneSegmentPerDirective ==
    ret = "Ok" =>
        /\ Len(segs) = Len(DirIdx)
        /\ \A k \in 1..Len(DirIdx) :
              /\ InClass(asm[DirIdx[k]], segs[k].base_addr)
              /\ GivenBase(asm[DirIdx[k]]).some
                    => segs[k].base_addr = GivenBase(asm[DirIdx[k]]).val
              /\ (segs[k].data = <<>>) <=> (ContentOf(k) = {})

\* C2 witness: four consecutive directive lines give four empty segments
C2_Witness ==
    /\ ret = "Ok"
    /\ Len(asm) = 4
    /\ \A i \in 1..4 : KindAt(i) = "directive"
    /\ Len(segs) = 4
    /\ \A k \in 1..4 : segs[k].data = <<>>

\* every character before the first '#' is whitespace
IsBlankText(raw) ==
    \A i \in 1..Len(raw) : IsWhitespace(raw[i]) \/ (\E j \in 1..i : raw[j] = "#")

\* C3: a source of empty, whitespace-only and comment lines never fails and
\* returns no segment.
C3_BlankSourceNoSegments ==
    (\A i \in 1..Len(asm) : IsBlankText(asm[i]))
        => (ret \in {"", "Ok"} /\ segs = <<>> /\ curr_seg = <<>>)

\* C3 witness: such a source of three lines or more, with both kinds of line
C3_Witness ==
    /\ ret = "Ok"
    /\ Len(asm) >= 3
    /\ \A i \in 1..Len(asm) : IsBlankText(asm[i])
    /\ \E i, j \in 1..Len(asm) : asm[i] = L_EMPTY /\ asm[j] = L_COMMENT
    /\ segs = <<>>

\* the last line read is a directive without an address, and it opened a segment
BareOpened ==
    /\ asm # <<>>
    /\ ret = ""
    /\ KindAt(Len(asm)) = "directive"
    /\ Len(LastTokens) = 1

\* the earlier segments of the class of the last line
SameClass == {i \in 1..Len(segs) : InClass(Last, segs[i].base_addr)}

WithBytes == {i \in SameClass : segs[i].data # <<>>}

\* C4 as claimed: a directive without an address opens at the class's lowest
\* address if no earlier segment of the class received bytes, otherwise at the
\* maximum of base_addr + data length over all earlier segments of the class.
C4_Original ==
    BareOpened =>
        curr_seg[1].base_addr =
            IF WithBytes = {} THEN LowestOf(Last)
            ELSE U32MaxOf({EndOf(segs[i]) : i \in SameClass})

\* C4 amended: ... otherwise at the maximum of base_addr + data length over the
\* earlier segments of the class that received bytes; so it starts at or after
\* the end of every byte emitted before in the class.
C4_BareDirectiveAtHighWaterMark ==
    BareOpened =>
        /\ curr_seg[1].base_addr =
              IF WithBytes = {} THEN LowestOf(Last)
              ELSE U32MaxOf({EndOf(segs[i]) : i \in WithBytes})
        /\ \A i \in WithBytes : U32Le(EndOf(segs[i]), curr_seg[1].base_addr)

\* C4 witness: a bare directive after bytes of its class, with an earlier
\* empty segment of the class above the mark
C4_Witness ==
    /\ BareOpened
    /\ WithBytes # {}
    /\ \E i \in SameClass : U32Lt(curr_seg[1].base_addr, segs[i].base_addr)

\* the address the last line, a directive, asks for
LastBase ==
    IF Len(LastTokens) >= 2 /\ try_parse_number(LastTokens[2]).some
    THEN try_parse_number(LastTokens[2]).val
    ELSE IF IsTextDirective(Last) THEN next_text_addr
    ELSE next_data_addr

\* C5: every segment opened lies in the range of the class of its directive,
\* and a directive whose address, given or defaulted, lies outside it fails
\* with BaseAddressOutOfRange.
C5_BaseInClassRange ==
    /\ ret \in {"", "Ok"} =>
          \A k \in 1..Len(AllSegs) : InClass(asm[DirIdx[k]], AllSegs[k].base_addr)
    /\ (asm # <<>> /\ KindAt(Len(asm)) = "directive" /\ ~InClass(Last, LastBase))
          => ret = "BaseAddressOutOfRange"

\* C5 witness: a bare .text whose defaulted address is past the TEXT range
C5_Witness ==
    /\ ret = "BaseAddressOutOfRange"
    /\ Last = L_TEXT
    /\ U32Lt(Mk(4095, 65535), next_text_addr)

\* C6 as claimed: a directive whose argument is present and is not a number
\* is rejected.
C6_Original ==
    (/\ asm # <<>>
     /\ KindAt(Len(asm)) = "directive"
     /\ Len(LastTokens) >= 2
     /\ ~try_parse_number(LastTokens[2]).some)
        => ret \notin {"", "Ok"}

NoDirectiveBefore == \A i \in 1..(Len(asm) - 1) : KindAt(i) # "directive"

\* C7 as claimed: an instruction or .word line before the first directive
\* fails with SegmentRequired, whatever else the line holds.
C7_Original ==
    (asm # <<>> /\ KindAt(Len(asm)) \in {"word", "ins"} /\ NoDirectiveBefore)
        => ret = "SegmentRequired"

\* C7 amended: before the first directive, a .word line fails with
\* SegmentRequired whatever its operands are, and an instruction line fails
\* with SegmentRequired if it parses and with its own parse error if not.
C7_SegmentRequiredBeforeDirective ==
    (asm # <<>> /\ KindAt(Len(asm)) \in {"word", "ins"} /\ NoDirectiveBefore)
        => ret = IF KindAt(Len(asm)) = "ins" /\ ~try_parse_ins(LineBody(Last), LastTokens[1]).ok
                 THEN try_parse_ins(LineBody(Last), LastTokens[1]).err
                 ELSE "SegmentRequired"

\* C7 witness: a .word line with a bad operand, after blank lines only
C7_Witness ==
    /\ Len(asm) >= 2
    /\ Last = L_WORD_BAD
    /\ NoDirectiveBefore
    /\ ret = "SegmentRequired"

\* the directive read last opened a TEXT segment
OpenIsText == IsTextDirective(asm[DirIdx[Len(DirIdx)]])

MarksKept == next_text_addr' = next_text_addr /\ next_data_addr' = next_data_addr

\* the line just read, a .word or instruction line, moves at most the mark of
\* the open segment's class, and on success that mark is at or after the end
\* of the open segment
OpenMarkOnly ==
    IF DirIdx = <<>> THEN MarksKept
    ELSE IF OpenIsText
    THEN /\ next_data_addr' = next_data_addr
         /\ ret' = "" => U32Le(EndOf(curr_seg'[1]), next_text_addr')
    ELSE /\ next_text_addr' = next_text_addr
         /\ ret' = "" => U32Le(EndOf(curr_seg'[1]), next_data_addr')

\* C17: a .word or instruction line advances only the mark of the class of
\* the segment opened last and leaves the other mark as it was; neither mark
\* ever decreases; a directive, .globl, blank or comment line, and the end
\* of the source, change neither mark.
C17_OnlyOpenClassMarkAdvances ==
    [][/\ U32Le(next_text_addr, next_text_addr')
       /\ U32Le(next_data_addr, next_data_addr')
       /\ IF asm' = asm THEN MarksKept
          ELSE IF KindTable[asm'[Len(asm')]] \in {"word", "ins"} THEN OpenMarkOnly
          ELSE MarksKept]_vars

\* C17 witness: an instruction line has advanced the TEXT mark in a source
\* whose DATA mark an earlier .word line had advanced
C17_Witness ==
    /\ asm # <<>>
    /\ KindAt(Len(asm)) = "ins"
    /\ ret = ""
    /\ is_text_seg
    /\ next_text_addr = EndOf(curr_seg[1])
    /\ U32Lt(Mk(64, 0), next_text_addr)
    /\ U32Lt(Mk(4096, 0), next_data_addr)

FoldLines == 3

\* lines that follow the line in error
ExtLines == {L_TEXT, L_WORD, L_UNKNOWN, L_DATA_LOW}

\* the source read so far has returned an error
Failed == asm # <<>> /\ ret \notin {"", "Ok"}

\* C19: assemble reads the lines in order and returns at the first line in
\* error: the lines before it assemble without error, the error returned for
\* the whole source is that line's, it is the same whatever line follows,
\* and it comes with no segments; a source without a line in error returns
\* Ok with every segment opened.
C19_FirstErrorReturned ==
    /\ (Failed /\ Len(asm) <= FoldLines) =>
          /\ assemble(SubSeq(asm, 1, Len(asm) - 1)).ret = "Ok"
          /\ AssembleResult(assemble(asm)) = [ok |-> FALSE, err |-> ret]
          /\ \A ext \in ExtLines :
                AssembleResult(assemble(Append(asm, ext))) = [ok |-> FALSE, err |-> ret]
    /\ (ret = "Ok" /\ Len(asm) <= FoldLines) =>
          /\ AssembleResult(assemble(asm)) = [ok |-> TRUE, segs |-> segs]
          /\ Len(segs) = Len(DirIdx)

\* C19 witness: the third line is in error after a directive and an
\* instruction line whose bytes are dropped with the open segment
C19_Witness ==
    /\ Failed
    /\ Len(asm) = 3
    /\ Last = L_UNKNOWN
    /\ ret = "UnknownInstruction"
    /\ curr_seg # <<>>
    /\ curr_seg[1].data # <<>>
    /\ AssembleResult(assemble(Append(asm, L_WORD_BAD))) = [ok |-> FALSE, err |-> ret]

RECURSIVE BytesIn(_, _)
BytesIn(order, values) ==
    IF values = <<>> THEN <<>>
    ELSE ToBytes(order, Head(values)) \o BytesIn(order, Tail(values))

\* the values the last line appends: the operands of .word, or the encoded word
LastValues ==
    IF KindAt(Len(asm)) = "word"
    THEN LET pieces == Split(StripPrefix(LineBody(Last), LastTokens[1]), ",")
         IN  [i \in 1..Len(pieces) |-> try_parse_number(Trim(pieces[i])).val]
    ELSE <<encode(try_parse_ins(LineBody(Last), LastTokens[1]))>>

DataTail(n) ==
    SubSeq(curr_seg[1].data, Len(curr_seg[1].data) - n + 1, Len(curr_seg[1].data))

\* C9 as claimed: for either endianness tag the assembly is configured with,
\* the bytes a .word or instruction line appends are its values' bytes in that
\* order.
C9_Original ==
    (asm # <<>> /\ ret = "" /\ KindAt(Len(asm)) \in {"word", "ins"})
        => \A endian \in EndianMode :
              DataTail(4 * Len(LastValues)) = BytesIn(endian, LastValues)

AsmInit ==
    /\ AsmStartVars
    /\ State_new
    /\ DisasmIdle
    /\ exec.pc = Mk(0, 0)

AsmNext ==
    \/ AsmBlank /\ UNCHANGED <<state_vars, disasm_vars>>
    \/ AsmDirective /\ UNCHANGED <<state_vars, disasm_vars>>
    \/ AsmGlobl /\ UNCHANGED <<state_vars, disasm_vars>>
    \/ AsmWord /\ UNCHANGED <<state_vars, disasm_vars>>
    \/ AsmIns /\ UNCHANGED <<state_vars, disasm_vars>>
    \/ AsmReturn /\ UNCHANGED <<state_vars, disasm_vars>>

AsmSpec == AsmInit /\ [][AsmNext]_vars

(***************************************************************************)
(* The instruction lines `<mnemonic> $rd, $rs, $rt` for every register     *)
(* triple, each assembled as the one line of an open TEXT segment          *)
(***************************************************************************)
Mnemonics == {MN_AND, MN_OR, MN_ADD, MN_SUB, MN_SLT}

Decimal(n) ==
    IF n < 10 THEN <<DIGITS[n + 1]>> ELSE <<DIGITS[(n \div 10) + 1], DIGITS[(n % 10) + 1]>>

FormatIns(mnemonic, rd, rs, rt) ==
    mnemonic \o <<" ", "$">> \o Decimal(rd) \o <<",", " ", "$">> \o Decimal(rs)
             \o <<",", " ", "$">> \o Decimal(rt)

EncOpen ==
    /\ asm = <<>>
    /\ ReadLine(L_TEXT)
    /\ SetLocals(DirectiveLine(Locals, DOT_TEXT, <<>>))
    /\ UNCHANGED <<state_vars, disasm_vars>>

EncLine(raw) ==
    /\ ReadLine(raw)
    /\ SetLocals(InsLine(Locals, LineBody(raw), SplitWhitespace(LineBody(raw))[1]))
    /\ UNCHANGED <<state_vars, disasm_vars>>

EncIns ==
    /\ Len(asm) = 1
    /\ \E mnemonic \in Mnemonics, rd, rs, rt \in 0..(NUM_REGS - 1) :
          EncLine(FormatIns(mnemonic, rd, rs, rt))

EncExample ==
    /\ Len(asm) = 1
    /\ \E raw \in {L_ADD, L_SUB} : EncLine(raw)

EncNext == EncOpen \/ EncIns \/ EncExample

EncSpec == AsmInit /\ [][EncNext]_vars

MnemonicOf(funct) ==
    CASE funct = 36 -> MN_AND
      [] funct = 37 -> MN_OR
      [] funct = 32 -> MN_ADD
      [] funct = 34 -> MN_SUB
      [] funct = 42 -> MN_SLT
      [] OTHER -> <<>>

\* the word the instruction line left in the segment, read in host order
EncWord == FromBytes(host, curr_seg[1].data)

\* C8: an instruction line `<mnemonic> $rd, $rs, $rt` in an open segment
\* appends exactly one word, rs<<21 | rt<<16 | rd<<11 | funct with opcode and
\* shamt bits zero and the mnemonic's funct code; `add $0, $4, $12` gives
\* 0x008c0020 and `sub $2,$s0,$zero` gives 0x02001022.
C8_RFormatEncoding ==
    Len(asm) = 2 =>
        /\ ret = ""
        /\ Len(curr_seg[1].data) = 4
        /\ EncWord[1] \div 1024 = 0
        /\ (EncWord[2] \div 64) % 32 = 0
        /\ CASE asm[2] = L_ADD -> EncWord = Mk(140, 32)
             [] asm[2] = L_SUB -> EncWord = Mk(512, 4130)
             [] OTHER -> asm[2] = FormatIns(MnemonicOf(EncWord[2] % 64), EncWord[2] \div 2048,
                                            (EncWord[1] \div 32) % 32, EncWord[1] % 32)

\* C8 witness: slt $31, $17, $9 assembled to 0x0229f82a
C8_Witness ==
    /\ Len(asm) = 2
    /\ asm[2] = FormatIns(MN_SLT, 31, 17, 9)
    /\ EncWord = Mk(17 * 32 + 9, 31 * 2048 + 42)

(***************************************************************************)
(* Inner::capture_disasm as a state machine: one step per pass of a loop   *)
(***************************************************************************)
\* disassemble: total; a word outside the modelled subset gives a placeholder
disassemble(x) ==
    IF decode(x).ok
    THEN <<decode(x).op, decode(x).rd, decode(x).rs, decode(x).rt>>
    ELSE <<"?">>

BACK_FLOOR == 4096

FORWARD_LIMIT == Mk(4096, 0)

BACK_NOPS == 16

FORWARD_NOPS == 256

WORD_BYTES == 4

\* x == 0x00000000 || x == 0x00000020
IsNop(x) == x = Mk(0, 0) \/ x = Mk(0, 32)

\* pc & (!0xfff)
PageBase(pc) == Mk(pc[1], pc[2] - (pc[2] % PAGE_SIZE))

\* HashMap::insert
Insert(m, k, v) == [a \in (DOMAIN m) \cup {k} |-> IF a = k THEN v ELSE m[a]]

DisasmFrame == UNCHANGED <<host, asm_vars, state_vars>>

capture_disasm_enter ==
    /\ scan = "idle"
    /\ scan' = "back"
    /\ mapping' = <<>>
    /\ scan_addr' = PageBase(exec.pc)
    /\ nop_cnt' = 0
    /\ DisasmFrame

\* the body of either loop: x is the word read at addr, next the address after it
LoopBody(x, next) ==
    /\ nop_cnt' = IF IsNop(x) THEN nop_cnt + 1 ELSE 0
    /\ mapping' = Insert(mapping, scan_addr, <<x, disassemble(x)>>)
    /\ scan_addr' = next
    /\ UNCHANGED scan
    /\ DisasmFrame

\* mutant: the backward loop runs down to address 4096 itself
M_WalkBackCond == U32Le(U32FromInt(BACK_FLOOR), scan_addr) /\ nop_cnt < BACK_NOPS

WalkBackCond == U32Lt(U32FromInt(BACK_FLOOR), scan_addr) /\ nop_cnt < BACK_NOPS

WalkForwardCond == U32Lt(scan_addr, FORWARD_LIMIT) /\ nop_cnt < FORWARD_NOPS

WalkBack ==
    /\ scan = "back"
    /\ WalkBackCond
    /\ LoopBody(read_u32(exec.mem, scan_addr), U32Sub(scan_addr, Mk(0, WORD_BYTES)))

\* the backward loop is left: the forward loop starts over from the page base
WalkBackEnd ==
    /\ scan = "back"
    /\ ~WalkBackCond
    /\ scan' = "fwd"
    /\ scan_addr' = PageBase(exec.pc)
    /\ nop_cnt' = 0
    /\ UNCHANGED mapping
    /\ DisasmFrame

WalkForward ==
    /\ scan = "fwd"
    /\ WalkForwardCond
    /\ LoopBody(read_u32(exec.mem, scan_addr), U32AddInt(scan_addr, WORD_BYTES))

\* the forward loop is left: mapping is returned
WalkForwardEnd ==
    /\ scan = "fwd"
    /\ ~WalkForwardCond
    /\ scan' = "done"
    /\ UNCHANGED <<mapping, scan_addr, nop_cnt>>
    /\ DisasmFrame

\* the words of `add $0, $0, $0`, `add $0, $4, $12` and `sub $2, $s0, $zero`
W_NOP == Mk(0, 32)

W_ADD == Mk(140, 32)

W_SUB == Mk(512, 4130)

NopLines == 258

\* the segment assemble returns for a directive with this base address
\* followed by the lines of these words
SegmentOf(base_addr, words) ==
    [base_addr |-> base_addr,
     data |-> [i \in 1..(WORD_BYTES * Len(words)) |->
                  to_ne_bytes(words[((i - 1) \div WORD_BYTES) + 1])[((i - 1) % WORD_BYTES) + 1]],
     labels |-> {}]

\* `.text` and NopLines lines `add $0, $0, $0`
NopProgram == <<SegmentOf(Mk(64, 0), [i \in 1..NopLines |-> W_NOP])>>

\* `.text 0x00400800`, an add and a sub
HighProgram == <<SegmentOf(Mk(64, 2048), <<W_ADD, W_SUB>>)>>

\* an add at 0x0FFFF3FC, at 0x0FFFF7FC and at 0x0FFFFBFC, an add and a sub at
\* 0x0FFFFFF8: four `.text` directives with an address
TopProgram ==
    <<SegmentOf(Mk(4095, 62460), <<W_ADD>>), SegmentOf(Mk(4095, 63484), <<W_ADD>>),
      SegmentOf(Mk(4095, 64508), <<W_ADD>>), SegmentOf(Mk(4095, 65528), <<W_ADD, W_SUB>>)>>

\* the sessions capture_disasm is called on, as the program assembled last
\* and the program counter:
\*   a new session, at 0, at 0x1000 and in the page after it;
\*   `.text`, an add and a sub, at the sub;
\*   NopProgram, after 256 and after 257 of its instructions;
\*   HighProgram, at its first instruction;
\*   TopProgram, at 0x0FFFFFF8 and after its last instruction
DisasmInputs ==
    { [pc |-> Mk(0, 0), segs |-> <<>>],
      [pc |-> Mk(0, 4096), segs |-> <<>>],
      [pc |-> Mk(0, 8196), segs |-> <<>>],
      [pc |-> Mk(64, 4), segs |-> <<SegmentOf(Mk(64, 0), <<W_ADD, W_SUB>>)>>],
      [pc |-> Mk(64, 1024), segs |-> NopProgram],
      [pc |-> Mk(64, 1028), segs |-> NopProgram],
      [pc |-> Mk(64, 2048), segs |-> HighProgram],
      [pc |-> Mk(4095, 65528), segs |-> TopProgram],
      [pc |-> Mk(4096, 0), segs |-> TopProgram] }

\* State::step has returned on such a session and notify_all is to capture it
DisasmSession(ss, pc) ==
    /\ exec = Arch_new(IF ss = <<>> THEN "ExInterpreter" ELSE "ExJit",
                       create_memory(EndianMode_native, ss), pc)
    /\ clean_after_reset = FALSE
    /\ last_op = "step"
    /\ input = NoArgs
    /\ result = "Ok"
    /\ engine = "step"
    /\ output = <<>>
    /\ running = FALSE
    /\ notify = <<>>

DisasmInit ==
    /\ AsmStartVars
    /\ DisasmIdle
    /\ host \in EndianMode
    /\ \E in \in DisasmInputs : DisasmSession(in.segs, in.pc)

DisasmNext ==
    \/ capture_disasm_enter
    \/ WalkBack
    \/ WalkBackEnd
    \/ WalkForward
    \/ WalkForwardEnd

DisasmSpec == DisasmInit /\ [][DisasmNext]_vars

(***************************************************************************)
(* Properties of capture_disasm (DisasmSpec)                               *)
(***************************************************************************)
WordAt(a) == read_u32(exec.mem, a)

\* 0x1000 <= pc < 0x10000000
CodeRange(pc) == U32Le(Mk(0, 4096), pc) /\ U32Lt(pc, Mk(4096, 0))

\* C15 as stated: with the program counter word-aligned between 0x1000 and
\* 0x10000000, the window capture_disasm returns has an entry at the program
\* counter, holding the word at that address and its disassembly.
C15_Original ==
    (scan = "done" /\ CodeRange(exec.pc) /\ exec.pc[2] % 4 = 0)
        => /\ exec.pc \in DOMAIN mapping
           /\ mapping[exec.pc] = <<WordAt(exec.pc), disassemble(WordAt(exec.pc))>>

\* the addresses the backward and the forward scan may visit
BackRange(a) == U32Lt(Mk(0, 4096), a) /\ U32Le(a, PageBase(exec.pc))

ForwardRange(a) == U32Le(PageBase(exec.pc), a) /\ U32Lt(a, Mk(4096, 0))

\* the n words the backward scan has visited last, at a + 4 .. a + 4n, are
\* in the window and are all 0 or 0x20
NopsAbove(a, n) ==
    /\ U32Le(a, PageBase(exec.pc))
    /\ U32Le(U32AddInt(a, 4 * n), PageBase(exec.pc))
    /\ \A i \in 1..n : IsNop(mapping[U32AddInt(a, 4 * i)][1])

\* the n words the forward scan has visited last, at a - 4n .. a - 4
NopsBelow(a, n) ==
    /\ U32Le(Mk(0, 4 * n), a)
    /\ U32Le(PageBase(exec.pc), U32Sub(a, Mk(0, 4 * n)))
    /\ \A i \in 1..n : IsNop(mapping[U32Sub(a, Mk(0, 4 * i))][1])

\* a pass of a loop adds the address it visits, with the word of the memory
\* at that address and its disassembly
Visits(a) ==
    /\ DOMAIN mapping' = (DOMAIN mapping) \cup {a}
    /\ mapping'[a] = <<WordAt(a), disassemble(WordAt(a))>>

\* an address counted in words
WordsOf(a) == a[1] * (Half \div 4) + a[2] \div 4

\* the passes capture_disasm has at most left: a natural number that every
\* step makes smaller
PassesLeft ==
    CASE scan = "idle" -> 3 * WordsOf(Mk(16384, 0))
      [] scan = "back" -> WordsOf(Mk(4096, 0)) + 2 + WordsOf(scan_addr)
      [] scan = "fwd" -> IF U32Lt(scan_addr, Mk(4096, 0))
                         THEN WordsOf(Mk(4096, 0)) - WordsOf(scan_addr) + 1
                         ELSE 1
      [] scan = "done" -> 0

\* C20: capture_disasm returns, whatever the program counter and the memory
\* are: until it has returned it can take a step, and every step lowers the
\* number of passes it has left; every key of the window is a multiple of 4
\* in the range of the backward scan (above 4096, up to the base of the
\* program counter's page) or of the forward scan (from that base, below
\* 0x10000000); each pass of a loop adds the address it visits, which is in
\* the loop's range, with the word read there; the backward loop goes on
\* until the 16 words visited last, the forward loop until the 256 words
\* visited last, are all 0 or 0x20, or the range ends.
C20_DisasmTerminatesInRange ==
    /\ [](scan # "done" => ENABLED DisasmNext)
    /\ [](PassesLeft >= 0)
    /\ [][PassesLeft' < PassesLeft]_vars
    /\ [](\A a \in DOMAIN mapping :
              a[2] % 4 = 0 /\ (BackRange(a) \/ ForwardRange(a)))
    /\ [][(scan = "back" /\ scan' = "back")
             => /\ BackRange(scan_addr)
                /\ ~NopsAbove(scan_addr, 16)
                /\ Visits(scan_addr)]_vars
    /\ [][(scan = "back" /\ scan' = "fwd")
             => (~U32Lt(Mk(0, 4096), scan_addr) \/ NopsAbove(scan_addr, 16))]_vars
    /\ [][(scan = "fwd" /\ scan' = "fwd")
             => /\ ForwardRange(scan_addr)
                /\ ~NopsBelow(scan_addr, 256)
                /\ Visits(scan_addr)]_vars
    /\ [][(scan = "fwd" /\ scan' = "done")
             => (~U32Lt(scan_addr, Mk(4096, 0)) \/ NopsBelow(scan_addr, 256))]_vars

\* C20 witness: the window of a program that ends at 0x0FFFFFFF: the
\* backward scan has ended on 16 zero words, the forward scan has run over
\* the whole page to 0x10000000 without meeting 256 of them in a row
C20_Witness ==
    /\ scan = "done"
    /\ exec.pc = Mk(4095, 65528)
    /\ scan_addr = Mk(4096, 0)
    /\ nop_cnt < 256
    /\ Mk(4095, 61440 - 60) \in DOMAIN mapping
    /\ Mk(4095, 61440 - 64) \notin DOMAIN mapping
    /\ Cardinality(DOMAIN mapping) = 1024 + 15

(***************************************************************************)
(* Instruction lines with any first token and any list of operands         *)
(* (InsSpec)                                                                *)
(***************************************************************************)
MaxOperands == 4

\* the first tokens: the mnemonics, `bad` and `ADD`
FirstTokens == Mnemonics \cup {<<"b","a","d">>, <<"A","D","D">>}

\* the operands the lists are made of: $0, $31, $32, ` $ra `, 4 and $+4
Operands ==
    {<<"$","0">>, <<"$","3","1">>, <<"$","3","2">>, <<" ","$","r","a"," ">>,
     <<"4">>, <<"$","+","4">>}

\* lists of three operands with one more kind of operand each: an empty
\* operand, $v1, $r0, $256, $ZERO, $zero, $031 and `$1 $2`
OperandExamples ==
    { <<<<"$","1">>, <<>>, <<"$","3">>>>,
      <<<<"$","1">>, <<"$","v","1">>, <<"$","3">>>>,
      <<<<"$","r","0">>, <<"$","2">>, <<"$","3">>>>,
      <<<<"$","1">>, <<"$","2">>, <<"$","2","5","6">>>>,
      <<<<"$","Z","E","R","O">>, <<"$","2">>, <<"$","3">>>>,
      <<<<"$","z","e","r","o">>, <<"$","s","8">>, <<"$","t","9">>>>,
      <<<<"$","0","3","1">>, <<"$","2">>, <<"$","3">>>>,
      <<<<"$","1"," ","$","2">>, <<"$","2">>, <<"$","3">>>> }

RECURSIVE JoinOperands(_)
JoinOperands(args) ==
    IF args = <<>> THEN <<>>
    ELSE IF Len(args) = 1 THEN args[1]
    ELSE args[1] \o <<",">> \o JoinOperands(Tail(args))

\* the line `<first token> <operand>,<operand>,...`
FormatLine(first_token, args) ==
    IF args = <<>> THEN first_token ELSE first_token \o SP \o JoinOperands(args)

\* the loop reads such a line; input remembers what it was made of
InsRead(first_token, args, raw) ==
    /\ ReadLine(raw)
    /\ SetLocals(AsmLine(Locals, raw))
    /\ input' = [mnemonic |-> first_token, args |-> args]
    /\ UNCHANGED <<clean_after_reset, exec, last_op, result, engine, output, notify,
                   running, disasm_vars>>

InsParse ==
    /\ Len(asm) <= 1
    /\ ret = ""
    /\ \E first_token \in FirstTokens, n \in 0..MaxOperands :
          \E args \in [1..n -> Operands] :
              InsRead(first_token, args, FormatLine(first_token, args))

InsExample ==
    /\ Len(asm) <= 1
    /\ ret = ""
    /\ \E first_token \in Mnemonics, args \in OperandExamples :
          InsRead(first_token, args, FormatLine(first_token, args))

InsNext == EncOpen \/ InsParse \/ InsExample

InsSpec == AsmInit /\ [][InsNext]_vars

\* the register names of the assembler: spec 3's canonical names
\* and the alias r0
RegisterIndex ==
    {
      <<<<"z","e","r","o">>, 0>>, <<<<"r","0">>, 0>>, <<<<"a","t">>, 1>>, <<<<"v","0">>, 2>>,
      <<<<"a","0">>, 4>>, <<<<"a","1">>, 5>>, <<<<"a","2">>, 6>>, <<<<"a","3">>, 7>>,
      <<<<"t","0">>, 8>>, <<<<"t","1">>, 9>>, <<<<"t","2">>, 10>>, <<<<"t","3">>, 11>>,
      <<<<"t","4">>, 12>>, <<<<"t","5">>, 13>>, <<<<"t","6">>, 14>>, <<<<"t","7">>, 15>>,
      <<<<"s","0">>, 16>>, <<<<"s","1">>, 17>>, <<<<"s","2">>, 18>>, <<<<"s","3">>, 19>>,
      <<<<"s","4">>, 20>>, <<<<"s","5">>, 21>>, <<<<"s","6">>, 22>>, <<<<"s","7">>, 23>>,
      <<<<"t","8">>, 24>>, <<<<"t","9">>, 25>>, <<<<"k","0">>, 26>>, <<<<"k","1">>, 27>>,
      <<<<"g","p">>, 28>>, <<<<"s","p">>, 29>>, <<<<"s","8">>, 30>>, <<<<"r","a">>, 31>> }

\* a decimal numeral as the integer parse of the standard library reads it:
\* digits, after an optional `+`
NumeralDigits(t) == IF t # <<>> /\ Head(t) = "+" THEN Tail(t) ELSE t

IsNumeral(t) ==
    /\ NumeralDigits(t) # <<>>
    /\ \A i \in 1..Len(NumeralDigits(t)) :
          NumeralDigits(t)[i] \in {"0","1","2","3","4","5","6","7","8","9"}

DigitValue(c) == CHOOSE d \in 0..9 : DIGITS[d + 1] = c

\* the value of a numeral, 1000 for any value of 1000 or more
RECURSIVE NumeralValue(_, _)
NumeralValue(d, acc) ==
    IF d = <<>> THEN acc
    ELSE IF acc >= 1000 THEN 1000
    ELSE NumeralValue(Tail(d), acc * 10 + DigitValue(Head(d)))

\* the register an operand names, -1 if it is neither `$name` nor `$N` with N < 32
OperandRegister(arg) ==
    LET t == Trim(arg)
    IN  IF t = <<>> \/ Head(t) # "$" THEN -1
        ELSE IF \E e \in RegisterIndex : e[1] = Tail(t)
        THEN (CHOOSE e \in RegisterIndex : e[1] = Tail(t))[2]
        ELSE IF IsNumeral(Tail(t)) /\ NumeralValue(NumeralDigits(Tail(t)), 0) < 32
        THEN NumeralValue(NumeralDigits(Tail(t)), 0)
        ELSE -1

\* a line of InsSpec has been read
InsLineRead == asm # <<>> /\ Last # L_TEXT

\* the word assembled from the line read last
InsWord == FromBytes(host, curr_seg[1].data)

====
